---- MODULE Spec2Model ----
(***************************************************************************)
(* sumit: render a changelog entry from the git history (cmd/root.go).     *)
(*                                                                         *)
(* Strings are sequences of one-character strings, so that prefix tests,   *)
(* splitting, truncation and concatenation are computed as the Go code     *)
(* computes them.  Fixed texts that are never split or compared piecewise  *)
(* (library error messages, terminal escape codes) are single elements.    *)
(***************************************************************************)
EXTENDS Integers, Sequences, FiniteSets, TLC

VARIABLES
    args,       \* positional arguments of the invocation
    repo,       \* what the directory holds; never changed by the program
    pc,         \* position of the run in rootCmd.Run / Execute
    version,    \* root.go:49
    useURL,     \* root.go:61
    remoteURL,  \* root.go:62
    err,        \* root.go: the err variable of Run
    release,    \* root.go:82
    iter,       \* number of commits the log iterator has yielded
    stdout,     \* bytes written to os.Stdout
    stderr,     \* bytes written to os.Stderr
    exitCode,   \* process exit status, -1 while the process runs
    first,      \* outcome of the previous invocation in the same repository
    url,        \* argument of a direct call of parseRemoteURL
    parsed      \* what that call returned

vars == <<args, repo, pc, version, useURL, remoteURL, err, release, iter,
          stdout, stderr, exitCode, first, url, parsed>>

----------------------------------------------------------------------------
(* Bounds of the model *)

\* longest history walked
MaxCommits == 2
\* length of the body (in tokens) of the URLs handed to parseRemoteURL
MaxTokens == 6
\* length of a commit hash in the model (40 in git); must exceed ShaLen
HashLen == 8

\* root.go:91  hashStr[:7]
ShaLen == 7

----------------------------------------------------------------------------
(* package strings *)

LF == "\n"

RECURSIVE Flatten(_)
\* concatenation of a sequence of strings
Flatten(ss) == IF ss = <<>> THEN <<>> ELSE Head(ss) \o Flatten(Tail(ss))

\* strings.HasPrefix
HasPrefix(s, p) == Len(s) >= Len(p) /\ SubSeq(s, 1, Len(p)) = p

\* strings.HasSuffix
HasSuffix(s, p) == Len(s) >= Len(p) /\ SubSeq(s, Len(s) - Len(p) + 1, Len(s)) = p

\* strings.TrimPrefix
TrimPrefix(s, p) == IF HasPrefix(s, p) THEN SubSeq(s, Len(p) + 1, Len(s)) ELSE s

\* strings.TrimSuffix
TrimSuffix(s, p) == IF HasSuffix(s, p) THEN SubSeq(s, 1, Len(s) - Len(p)) ELSE s

\* the positions of character c in s
Positions(s, c) == {i \in 1..Len(s) : s[i] = c}

\* strings.Split with a one-character separator: every occurrence of sep
\* splits, so n occurrences give n + 1 parts (empty ones included)
Split(s, sep) ==
    LET P == Positions(s, sep)
        n == Cardinality(P)
        at(k) == IF k = 0 THEN 0
                 ELSE IF k = n + 1 THEN Len(s) + 1
                 ELSE CHOOSE p \in P : Cardinality({q \in P : q <= p}) = k
    IN  [k \in 1..(n + 1) |-> SubSeq(s, at(k - 1) + 1, at(k) - 1)]

----------------------------------------------------------------------------
(* parseRemoteURL, root.go:104-137 *)

HTTPS == <<"h", "t", "t", "p", "s", ":", "/", "/">>
GITAT == <<"g", "i", "t", "@">>
DOTGIT == <<".", "g", "i", "t">>

NoErr == <<>>
InvalidRemoteURL(u) == <<"invalid remote url structure: ">> \o u
UnsupportedRemoteURL(u) == <<"unsupported remote url structure: ">> \o u

\* fmt.Sprintf("%s/%s/%s", baseURL, ws, repoName)
RepoURL(baseURL, ws, repoName) == baseURL \o <<"/">> \o ws \o <<"/">> \o repoName

\* parseHTTPS without strings.TrimSuffix: the ".git" stays on the repo segment
parseHTTPS_KeepDotGit(u) ==
    LET parts == Split(TrimPrefix(u, HTTPS), "/")
    IN  IF Len(parts) < 3
        THEN [url |-> <<>>, err |-> InvalidRemoteURL(u)]
        ELSE [url |-> RepoURL(HTTPS \o parts[1], parts[2], parts[3]), err |-> NoErr]

\* parseHTTPS reporting too few segments with the other error
parseHTTPS_WrongError(u) ==
    LET parts == Split(TrimPrefix(u, HTTPS), "/")
    IN  IF Len(parts) < 3
        THEN [url |-> <<>>, err |-> UnsupportedRemoteURL(u)]
        ELSE [url |-> RepoURL(HTTPS \o parts[1], parts[2],
                              TrimSuffix(parts[3], DOTGIT)),
              err |-> NoErr]

\* the "https://" branch, root.go:107-115 and 135-136
parseHTTPS(u) ==
    LET trimURL == TrimPrefix(u, HTTPS)
        parts == Split(trimURL, "/")
    IN  IF Len(parts) < 3
        THEN [url |-> <<>>, err |-> InvalidRemoteURL(u)]
        ELSE [url |-> RepoURL(HTTPS \o parts[1], parts[2],
                              TrimSuffix(parts[3], DOTGIT)),
              err |-> NoErr]

\* the "git@" branch, root.go:116-130 and 135-136
parseSSH(u) ==
    LET trimURL == TrimPrefix(u, GITAT)
        parts == Split(trimURL, ":")
    IN  IF Len(parts) < 2
        THEN [url |-> <<>>, err |-> InvalidRemoteURL(u)]
        ELSE LET repoParts == Split(parts[2], "/")
             IN  IF Len(repoParts) < 2
                 THEN [url |-> <<>>, err |-> InvalidRemoteURL(u)]
                 ELSE [url |-> RepoURL(HTTPS \o parts[1], repoParts[1],
                                       TrimSuffix(repoParts[2], DOTGIT)),
                       err |-> NoErr]

parseRemoteURL(u) ==
    IF HasPrefix(u, HTTPS) THEN parseHTTPS(u)
    ELSE IF HasPrefix(u, GITAT) THEN parseSSH(u)
    ELSE [url |-> <<>>, err |-> UnsupportedRemoteURL(u)]

----------------------------------------------------------------------------
(* What an invocation is given: arguments, the repository, the clock *)

V1 == <<"v", "1">>
V2 == <<"2", ".", "0">>
EXTRA == <<"x">>

\* os.Args after the flags: none, the version, the version and one more
ArgLists == {<<>>, <<V1>>, <<V2>>, <<V1, EXTRA>>, <<V1, V2>>}

\* time.Now().Format("2006-01-02")
Dates == {<<"2", "0", "2", "6", "-", "0", "1", "-", "0", "1">>,
          <<"2", "0", "2", "6", "-", "0", "1", "-", "0", "2">>}

Hex == <<"0", "1", "2", "3", "4", "5", "6", "7",
         "8", "9", "a", "b", "c", "d", "e", "f">>

\* plumbing.Hash.String(): HashLen hexadecimal digits, different for each k
HashOf(k) == [i \in 1..HashLen |-> Hex[((i * k + k) % 16) + 1]]

Messages == << <<"F", "i", "x", LF, LF, "d">>,   \* title, blank line, body
               <<"A", "d", "d">>,                \* no line break
               <<>> >>                           \* empty message

\* object.Commit: the fields Run reads
CommitPool == {[hash |-> HashOf(k), message |-> Messages[k]] : k \in 1..Len(Messages)}

\* what the log iterator can yield: distinct commits, in any order
Histories ==
    UNION {{h \in [1..n -> CommitPool] : \A i, j \in 1..n : i # j => h[i] # h[j]}
           : n \in 0..MaxCommits}

OriginSSH == GITAT \o <<"h", ":", "w", "/", "r">> \o DOTGIT
OriginHTTPS == HTTPS \o <<"h", "/", "w", "/", "r">>
OriginOnePart == HTTPS \o <<"h">>
OriginFTP == <<"f", "t", "p", ":", "/", "/", "h", "/", "w", "/", "r">>

\* rem.Config().URLs[0] of the remotes named "origin" considered
OriginURLs == {OriginSSH, OriginHTTPS, OriginOnePart, OriginFTP}

\* a directory git.PlainOpen refuses
NotARepo == [isRepo |-> FALSE, hasOrigin |-> FALSE, originURL |-> <<>>,
             headOK |-> FALSE, logOK |-> FALSE, commits |-> <<>>, failAt |-> -1]

\* A repository: whether "origin" exists and its URL, whether HEAD resolves,
\* whether repo.Log succeeds, the commits the iterator yields, and after how
\* many of them the traversal fails (-1: it does not fail).
Repos ==
    {NotARepo} \cup
    {r \in [isRepo : {TRUE}, hasOrigin : BOOLEAN, originURL : OriginURLs \cup {<<>>},
            headOK : BOOLEAN, logOK : BOOLEAN, commits : Histories,
            failAt : -1..MaxCommits] :
        /\ r.hasOrigin <=> r.originURL # <<>>
        /\ r.logOK => r.headOK
        /\ ~r.logOK => r.commits = <<>> /\ r.failAt = -1
        /\ r.failAt <= Len(r.commits)}

NoRelease == [Version |-> <<>>, Date |-> <<>>, Changes |-> <<>>]
NoRun == [ran |-> FALSE, args |-> <<>>, date |-> <<>>, stdout |-> <<>>, exitCode |-> -1]
NotCalled == [url |-> <<>>, err |-> NoErr]

----------------------------------------------------------------------------
(* Errors and bail, root.go:20-24 *)

ErrArgs == <<"requires at least 1 arg(s), only received 0">>
ErrRepositoryNotExists == <<"repository does not exist">>
ErrRemoteNotFound == <<"remote not found">>
ErrReferenceNotFound == <<"reference not found">>
ErrLog == <<"reference not found">>
ErrTraversal == <<"object not found">>

\* errors.Wrap(err, message)
Wrap(e, message) == <<message, ":", " ">> \o e

\* fmt.Printf("\n\x1b[31;1m%+v\x1b[0m\n", fmt.Sprintf("error: %s", err))
BailText(e) == <<LF, "ESC[31;1m", "error: ">> \o e \o <<"ESC[0m", LF>>

\* bail(err) with err # nil: print on standard output, os.Exit(1)
bail(e) ==
    /\ err' = e
    /\ stdout' = stdout \o BailText(e)
    /\ exitCode' = 1
    /\ pc' = "exited"

----------------------------------------------------------------------------
(* releaseTemplate, root.go:38-42, as text/template executes it *)

ChangeLine(c) ==
    <<LF, "-", " ">> \o c.Title \o <<" ">> \o
    (IF c.URL # <<>>
     THEN <<"[">> \o c.SHA \o <<"]", "(">> \o c.URL \o <<")">>
     ELSE <<"[">> \o c.SHA \o <<"]">>)

releaseTemplate(rel) ==
    <<LF, "#", "#", " ", "[">> \o rel.Version \o <<"]", " ", "-", " ">> \o rel.Date
    \o <<LF>>
    \o Flatten([i \in 1..Len(rel.Changes) |-> ChangeLine(rel.Changes[i])])
    \o <<LF>>

COMMITS == <<"/", "c", "o", "m", "m", "i", "t", "s", "/">>

\* NewChange linking to the 7-character SHA instead of the full hash
NewChange_ShortHashLink(c, withURL, base) ==
    [SHA |-> SubSeq(c.hash, 1, ShaLen),
     Title |-> Split(c.message, LF)[1],
     URL |-> IF withURL THEN base \o COMMITS \o SubSeq(c.hash, 1, ShaLen) ELSE <<>>]

\* NewChange taking the whole message as the title
NewChange_WholeMessage(c, withURL, base) ==
    [SHA |-> SubSeq(c.hash, 1, ShaLen),
     Title |-> c.message,
     URL |-> IF withURL THEN base \o COMMITS \o c.hash ELSE <<>>]

\* the callback of iter.ForEach, root.go:86-94
NewChange(c, withURL, base) ==
    LET hashStr == c.hash
    IN  [SHA |-> SubSeq(hashStr, 1, ShaLen),
         Title |-> Split(c.message, LF)[1],
         URL |-> IF withURL THEN base \o COMMITS \o hashStr ELSE <<>>]

----------------------------------------------------------------------------
(* One invocation: Execute -> rootCmd.Execute -> Run *)

Init ==
    /\ args \in ArgLists
    /\ repo \in Repos
    /\ pc = "start"
    /\ version = <<>>
    /\ useURL = FALSE
    /\ remoteURL = <<>>
    /\ err = NoErr
    /\ release = NoRelease
    /\ iter = 0
    /\ stdout = <<>>
    /\ stderr = <<>>
    /\ exitCode = -1
    /\ first = NoRun
    /\ url = <<>>
    /\ parsed = NotCalled

\* ParseArgs taking the last argument as the version
ParseArgs_LastArg ==
    /\ pc = "start"
    /\ IF Len(args) < 1
       THEN /\ stderr' = stderr \o <<"Error: ">> \o ErrArgs \o <<LF, "usage", LF>>
            /\ bail(ErrArgs)
            /\ UNCHANGED version
       ELSE /\ version' = args[Len(args)]
            /\ pc' = "open"
            /\ UNCHANGED <<stderr, err, stdout, exitCode>>
    /\ UNCHANGED <<args, repo, useURL, remoteURL, release, iter, first, url, parsed>>

\* cobra.MinimumNArgs(1), root.go:47; on failure cobra reports on standard
\* error and Execute (root.go:139-141) bails.  Otherwise Run starts: root.go:49.
ParseArgs ==
    /\ pc = "start"
    /\ IF Len(args) < 1
       THEN /\ stderr' = stderr \o <<"Error: ">> \o ErrArgs \o <<LF, "usage", LF>>
            /\ bail(ErrArgs)
            /\ UNCHANGED version
       ELSE /\ version' = args[1]
            /\ pc' = "open"
            /\ UNCHANGED <<stderr, err, stdout, exitCode>>
    /\ UNCHANGED <<args, repo, useURL, remoteURL, release, iter, first, url, parsed>>

\* git.PlainOpen, root.go:55-58
OpenRepo ==
    /\ pc = "open"
    /\ IF ~repo.isRepo
       THEN bail(Wrap(ErrRepositoryNotExists, "failed to open git repository"))
       ELSE /\ err' = NoErr
            /\ pc' = "remote"
            /\ UNCHANGED <<stdout, exitCode>>
    /\ UNCHANGED <<args, repo, version, useURL, remoteURL, release, iter, stderr,
                   first, url, parsed>>

\* ResolveRemote carrying on without links when the origin URL does not parse
ResolveRemote_Degrade ==
    /\ pc = "remote"
    /\ IF repo.hasOrigin /\ parseRemoteURL(repo.originURL).err = NoErr
       THEN /\ remoteURL' = parseRemoteURL(repo.originURL).url
            /\ useURL' = TRUE
            /\ err' = NoErr
       ELSE /\ err' = ErrRemoteNotFound
            /\ UNCHANGED <<useURL, remoteURL>>
    /\ pc' = "head"
    /\ UNCHANGED <<args, repo, version, release, iter, stdout, stderr, exitCode,
                   first, url, parsed>>

\* repo.Remote("origin") and parseRemoteURL, root.go:60-68
ResolveRemote ==
    /\ pc = "remote"
    /\ IF repo.hasOrigin
       THEN LET r == parseRemoteURL(repo.originURL)
            IN  /\ remoteURL' = r.url
                /\ IF r.err # NoErr
                   THEN bail(r.err) /\ UNCHANGED useURL
                   ELSE /\ useURL' = TRUE
                        /\ err' = NoErr
                        /\ pc' = "head"
                        /\ UNCHANGED <<stdout, exitCode>>
       ELSE /\ err' = ErrRemoteNotFound
            /\ pc' = "head"
            /\ UNCHANGED <<useURL, remoteURL, stdout, exitCode>>
    /\ UNCHANGED <<args, repo, version, release, iter, stderr, first, url, parsed>>

\* repo.Head, root.go:70-73
ResolveHead ==
    /\ pc = "head"
    /\ IF ~repo.headOK
       THEN bail(Wrap(ErrReferenceNotFound, "failed to get head ref"))
       ELSE /\ err' = NoErr
            /\ pc' = "log"
            /\ UNCHANGED <<stdout, exitCode>>
    /\ UNCHANGED <<args, repo, version, useURL, remoteURL, release, iter, stderr,
                   first, url, parsed>>

\* repo.Log, root.go:75-78
CreateLog ==
    /\ pc = "log"
    /\ IF ~repo.logOK
       THEN bail(Wrap(ErrLog, "failed to get commit log"))
       ELSE /\ err' = NoErr
            /\ pc' = "release"
            /\ UNCHANGED <<stdout, exitCode>>
    /\ UNCHANGED <<args, repo, version, useURL, remoteURL, release, iter, stderr,
                   first, url, parsed>>

\* the date and the empty release, root.go:80-85
NewRelease ==
    /\ pc = "release"
    /\ \E d \in Dates : release' = [Version |-> version, Date |-> d, Changes |-> <<>>]
    /\ pc' = "foreach"
    /\ UNCHANGED <<args, repo, version, useURL, remoteURL, err, iter, stdout, stderr,
                   exitCode, first, url, parsed>>

\* one step of iter.ForEach, root.go:86-97: the iterator fails, is exhausted,
\* or yields the next commit to the callback.  ForEach's result is assigned
\* to err and Run goes on to the template whatever it is.
ForEach ==
    /\ pc = "foreach"
    /\ IF iter = repo.failAt
       THEN /\ err' = ErrTraversal
            /\ pc' = "render"
            /\ UNCHANGED <<release, iter>>
       ELSE IF iter = Len(repo.commits)
       THEN /\ err' = NoErr
            /\ pc' = "render"
            /\ UNCHANGED <<release, iter>>
       ELSE /\ release' = [release EXCEPT !.Changes =
                   Append(@, NewChange(repo.commits[iter + 1], useURL, remoteURL))]
            /\ iter' = iter + 1
            /\ UNCHANGED <<err, pc>>
    /\ UNCHANGED <<args, repo, version, useURL, remoteURL, stdout, stderr, exitCode,
                   first, url, parsed>>

\* tmpl.Execute(os.Stdout, release), root.go:99-100; Run returns, bail(nil)
\* returns and the process ends with status 0
Render ==
    /\ pc = "render"
    /\ stdout' = stdout \o releaseTemplate(release)
    /\ exitCode' = 0
    /\ pc' = "exited"
    /\ UNCHANGED <<args, repo, version, useURL, remoteURL, err, release, iter, stderr,
                   first, url, parsed>>

Next ==
    \/ ParseArgs
    \/ OpenRepo
    \/ ResolveRemote
    \/ ResolveHead
    \/ CreateLog
    \/ NewRelease
    \/ ForEach
    \/ Render

Spec == Init /\ [][Next]_vars

----------------------------------------------------------------------------
(* Two invocations, one after the other, in the same unchanged repository *)

\* the process has ended; it is started again with arguments of its own
Rerun ==
    /\ pc = "exited"
    /\ ~first.ran
    /\ first' = [ran |-> TRUE, args |-> args, date |-> release.Date,
                 stdout |-> stdout, exitCode |-> exitCode]
    /\ args' \in ArgLists
    /\ pc' = "start"
    /\ version' = <<>>
    /\ useURL' = FALSE
    /\ remoteURL' = <<>>
    /\ err' = NoErr
    /\ release' = NoRelease
    /\ iter' = 0
    /\ stdout' = <<>>
    /\ stderr' = <<>>
    /\ exitCode' = -1
    /\ UNCHANGED <<repo, url, parsed>>

NextTwice == Next \/ Rerun

SpecTwice == Init /\ [][NextTwice]_vars

----------------------------------------------------------------------------
(* parseRemoteURL called on its own *)

HTTP == <<"h", "t", "t", "p", ":", "/", "/">>
Prefixes == {HTTPS, GITAT, HTTP, <<>>}
Tokens == {<<"a">>, <<"b">>, <<":">>, <<"/">>, DOTGIT}

\* the examples of the documentation, and a path with a second ':'
OnlyOnePart == HTTPS \o <<"o", "n", "l", "y">>
OnlyRepo == GITAT \o <<"h", ":", "o", "n", "l", "y">>
Widget == GITAT \o <<"h", ".", "c", "o", "m", ":", "a", "c", "m", "e", "/",
                    "w", "i", "d", "g", "e", "t">> \o DOTGIT
TwoColons == GITAT \o <<"h", ":", "w", "/", "r", ":", "x">>

RECURSIVE Bodies(_)
\* the strings made of at most n tokens
Bodies(n) ==
    IF n = 0 THEN {<<>>}
    ELSE LET shorter == Bodies(n - 1)
         IN  shorter \cup {b \o t : b \in shorter, t \in Tokens}

\* a prefix followed by at most MaxTokens tokens
URLs ==
    {p \o b : p \in Prefixes, b \in Bodies(MaxTokens)}
    \cup {OnlyOnePart, OnlyRepo, Widget, TwoColons}

InitParse ==
    /\ url \in URLs
    /\ parsed = NotCalled
    /\ pc = "call"
    /\ args = <<>>
    /\ repo = NotARepo
    /\ version = <<>>
    /\ useURL = FALSE
    /\ remoteURL = <<>>
    /\ err = NoErr
    /\ release = NoRelease
    /\ iter = 0
    /\ stdout = <<>>
    /\ stderr = <<>>
    /\ exitCode = -1
    /\ first = NoRun

CallParse ==
    /\ pc = "call"
    /\ parsed' = parseRemoteURL(url)
    /\ pc' = "returned"
    /\ UNCHANGED <<args, repo, version, useURL, remoteURL, err, release, iter,
                   stdout, stderr, exitCode, first, url>>

NextParse == CallParse

SpecParse == InitParse /\ [][NextParse]_vars

----------------------------------------------------------------------------
(* Properties of parseRemoteURL, under SpecParse *)

\* s without one trailing ".git", when it has one
WithoutDotGit(s) ==
    IF Len(s) >= 4 /\ SubSeq(s, Len(s) - 3, Len(s)) = DOTGIT
    THEN SubSeq(s, 1, Len(s) - 4)
    ELSE s

\* https://<host>/<workspace>/<repo>
Normalized(host, ws, repoName) ==
    [url |-> HTTPS \o host \o <<"/">> \o ws \o <<"/">> \o repoName, err |-> NoErr]

\* C3: for every URL git@<host>:<workspace>/<repo>[.git], the host ending at
\* the first ':' and whatever follows it (further ':' included) being the
\* path <workspace>/<repo>, parseRemoteURL returns https://<host>/<workspace>/<repo>.
C3_SSHSplitAtFirstColon ==
    (pc = "returned" /\ HasPrefix(url, GITAT)) =>
        LET body == SubSeq(url, Len(GITAT) + 1, Len(url))
        IN  \A i \in Positions(body, ":") : \A j \in Positions(body, "/") :
                (/\ \A k \in Positions(body, ":") : i <= k
                 /\ i < j
                 /\ \A k \in Positions(body, "/") : k > i => (k = j))
                => parsed = Normalized(SubSeq(body, 1, i - 1),
                                       SubSeq(body, i + 1, j - 1),
                                       WithoutDotGit(SubSeq(body, j + 1, Len(body))))

\* C4: for every URL https://<host>/<workspace>/<repo>[.git] (three segments),
\* parseRemoteURL returns https://<host>/<workspace>/<repo>, one trailing ".git"
\* removed from the repo segment and nothing else changed.
C4_HTTPSNormalized ==
    (pc = "returned" /\ HasPrefix(url, HTTPS)) =>
        LET body == SubSeq(url, Len(HTTPS) + 1, Len(url))
        IN  \A i, j \in Positions(body, "/") :
                (i < j /\ Positions(body, "/") = {i, j})
                => parsed = Normalized(SubSeq(body, 1, i - 1),
                                       SubSeq(body, i + 1, j - 1),
                                       WithoutDotGit(SubSeq(body, j + 1, Len(body))))

C4_Witness ==
    /\ pc = "returned"
    /\ url = HTTPS \o <<"a", "/", "b", "/", "a">> \o DOTGIT
    /\ parsed = [url |-> HTTPS \o <<"a", "/", "b", "/", "a">>, err |-> NoErr]

\* C5: a URL with neither prefix fails as unsupported; an "https://" URL with
\* fewer than 3 segments, and a "git@" URL without ':' or without '/' after
\* its first ':', fail as invalid; every failure returns the empty string.
C5_FailureClasses ==
    pc = "returned" =>
        /\ (~HasPrefix(url, HTTPS) /\ ~HasPrefix(url, GITAT))
               => parsed.err = UnsupportedRemoteURL(url)
        /\ (HasPrefix(url, HTTPS)
            /\ Cardinality(Positions(SubSeq(url, Len(HTTPS) + 1, Len(url)), "/")) < 2)
               => parsed.err = InvalidRemoteURL(url)
        /\ HasPrefix(url, GITAT) =>
               LET body == SubSeq(url, Len(GITAT) + 1, Len(url))
                   colons == Positions(body, ":")
               IN  (\/ colons = {}
                    \/ \E i \in colons :
                          /\ \A k \in colons : i <= k
                          /\ \A j \in Positions(body, "/") : j < i)
                   => parsed.err = InvalidRemoteURL(url)
        /\ parsed.err # NoErr => parsed.url = <<>>

C5_Witness ==
    /\ pc = "returned"
    /\ url = OnlyRepo
    /\ parsed = [url |-> <<>>, err |-> InvalidRemoteURL(OnlyRepo)]

----------------------------------------------------------------------------
(* Properties of one invocation, under Spec *)

\* the origin remote exists and its URL normalizes
OriginParses == repo.hasOrigin /\ parseRemoteURL(repo.originURL).err = NoErr

\* the origin remote exists and parseRemoteURL fails on its URL
OriginRejected == repo.hasOrigin /\ parseRemoteURL(repo.originURL).err # NoErr

\* the run reached iter.ForEach and ForEach returned an error
TraversalFailed == pc \in {"render", "exited"} /\ err = ErrTraversal

\* nothing of the changelog is on standard output
NoChangelog == stdout = <<>> \/ stdout = BailText(err)

\* C1: when the log traversal fails after k >= 0 commits, the run ends with
\* exit code 1 and neither the header nor any of the k commits is written to
\* standard output.
C1_TraversalFailureIsFatal ==
    (pc = "exited" /\ TraversalFailed) => (exitCode = 1 /\ NoChangelog)

\* C2: without an "origin" remote the run goes on and renders the changelog
\* with links disabled, exit 0; with an origin whose URL parseRemoteURL
\* rejects the run ends with exit 1 and renders nothing, whether or not HEAD
\* and the log are readable.
C2_OriginTwoWays ==
    (pc = "exited" /\ Len(args) >= 1 /\ repo.isRepo) =>
        /\ OriginRejected =>
               /\ exitCode = 1
               /\ release = NoRelease
               /\ stdout = BailText(parseRemoteURL(repo.originURL).err)
        /\ (~repo.hasOrigin /\ repo.headOK /\ repo.logOK) =>
               /\ exitCode = 0
               /\ ~useURL
               /\ \A i \in 1..Len(release.Changes) : release.Changes[i].URL = <<>>
               /\ stdout = releaseTemplate(release)
               /\ \A i \in 1..Len(stdout) : stdout[i] # "("

C2_Witness ==
    /\ pc = "exited"
    /\ repo.originURL = OriginFTP
    /\ repo.headOK /\ repo.logOK /\ Len(repo.commits) = 2 /\ repo.failAt = -1
    /\ Len(args) >= 1
    /\ exitCode = 1
    /\ stdout = BailText(UnsupportedRemoteURL(OriginFTP))

\* C6: within a release every Change has a non-empty URL exactly when an
\* origin remote exists and its URL was normalized, the URL being the
\* normalized base, "/commits/" and the full hash of the commit; otherwise
\* every Change has an empty URL.
C6_LinksAllOrNothing ==
    \A i \in 1..Len(release.Changes) :
        LET c == release.Changes[i]
        IN  /\ c.URL # <<>> <=> OriginParses
            /\ OriginParses =>
                   c.URL = parseRemoteURL(repo.originURL).url
                           \o <<"/", "c", "o", "m", "m", "i", "t", "s", "/">>
                           \o repo.commits[i].hash

C6_Witness ==
    /\ pc = "exited"
    /\ exitCode = 0
    /\ repo.originURL = OriginSSH
    /\ Len(release.Changes) = 2
    /\ release.Changes[2].URL =
           HTTPS \o <<"h", "/", "w", "/", "r", "/", "c", "o", "m", "m", "i", "t", "s", "/">>
           \o repo.commits[2].hash
    /\ Len(release.Changes[2].URL) > Len(release.Changes[2].SHA) + 22

\* the message up to, and without, its first line break
FirstLine(m) ==
    IF Positions(m, LF) = {} THEN m
    ELSE SubSeq(m, 1, (CHOOSE k \in Positions(m, LF) :
                           \A l \in Positions(m, LF) : k <= l) - 1)

\* "- <title> [<sha>]", followed by "(<url>)" when the Change has a URL
BulletLine(c) ==
    <<"-", " ">> \o c.Title \o <<" ", "[">> \o c.SHA \o <<"]">>
    \o (IF c.URL = <<>> THEN <<>> ELSE <<"(">> \o c.URL \o <<")">>)

\* C7: on a successful run over a history of n commits the release holds n
\* Changes in the order the traversal yielded the commits, the i-th with the
\* first 7 characters of the i-th hash as SHA and the first line of the i-th
\* message as Title, and the output has one "- <title> [<sha>]" line per
\* Change in that order.
C7_ChangesFollowLog ==
    (pc = "exited" /\ exitCode = 0 /\ ~TraversalFailed) =>
        /\ Len(release.Changes) = Len(repo.commits)
        /\ \A i \in 1..Len(repo.commits) :
               /\ release.Changes[i].SHA = [k \in 1..7 |-> repo.commits[i].hash[k]]
               /\ release.Changes[i].Title = FirstLine(repo.commits[i].message)
        /\ LET lines == Split(stdout, LF)
               n == Len(release.Changes)
           IN  /\ Len(lines) = n + 4
               /\ \A i \in 1..n : lines[i + 3] = BulletLine(release.Changes[i])
               /\ \A i \in 1..Len(lines) :
                      HasPrefix(lines[i], <<"-", " ">>) => i \in 4..(n + 3)

C7_Witness ==
    /\ pc = "exited"
    /\ exitCode = 0
    /\ ~repo.hasOrigin
    /\ Len(repo.commits) = 2
    /\ Len(release.Changes) = 2
    /\ repo.commits[1].message = Messages[1]
    /\ repo.commits[2].message = Messages[3]
    /\ release.Changes[1].Title = <<"F", "i", "x">>
    /\ release.Changes[2].Title = <<>>
    /\ Len(release.Changes[1].SHA) = 7

\* C8: an invocation ends with exit code 0 after the changelog is rendered
\* or with exit code 1 after an "error: <message>" line; a failure at
\* argument parsing, repository open, URL normalization, HEAD resolution or
\* log creation lets no later stage run and produces no changelog; exit code
\* 0 occurs only when every stage succeeded.
C8_EveryFailureIsTerminal ==
    pc = "exited" =>
        /\ exitCode \in {0, 1}
        /\ exitCode = 0 => stdout = releaseTemplate(release)
        /\ exitCode = 1 => stdout = BailText(err) /\ err # NoErr
        /\ (\/ Len(args) = 0
            \/ ~repo.isRepo
            \/ OriginRejected
            \/ ~repo.headOK
            \/ ~repo.logOK) =>
               (exitCode = 1 /\ release = NoRelease /\ iter = 0 /\ NoChangelog)
        /\ exitCode = 0 =>
               /\ Len(args) >= 1
               /\ repo.isRepo
               /\ ~OriginRejected
               /\ repo.headOK
               /\ repo.logOK
               /\ ~TraversalFailed

\* C9: on a failing run the formatted error message goes to standard error
\* and nothing at all is written to standard output.
C9_ErrorsOnStderrOnly ==
    (pc = "exited" /\ exitCode = 1) => stdout = <<>>

----------------------------------------------------------------------------
(* Two invocations compared, under SpecTwice *)

\* the version argument, when there is one
VersionOf(a) == IF a = <<>> THEN <<>> ELSE <<a[1]>>

\* where releaseTemplate puts the date: after "\n## [", the version and "] - "
DateField(v, d) == (Len(v) + 10)..(Len(v) + 9 + Len(d))

\* C10: two runs in the same unchanged repository with the same version
\* string end with the same exit code and, the date being the same, the same
\* output; with different dates the outputs differ in the date field only;
\* arguments after the first do not matter.
C10_OutputIsFunctionOfInputs ==
    (pc = "exited" /\ first.ran /\ VersionOf(first.args) = VersionOf(args)) =>
        /\ exitCode = first.exitCode
        /\ release.Date = first.date => stdout = first.stdout
        /\ Len(stdout) = Len(first.stdout)
        /\ \A i \in 1..Len(stdout) :
               i \notin DateField(version, release.Date) => stdout[i] = first.stdout[i]

C10_Witness ==
    /\ pc = "exited"
    /\ first.ran
    /\ first.args = <<V1>>
    /\ args = <<V1, V2>>
    /\ exitCode = 0
    /\ release.Date # first.date
    /\ stdout # first.stdout
    /\ Len(release.Changes) = 2
    /\ repo.hasOrigin

====
